---- MODULE Spec2Model ----
(***************************************************************************)
(* Model of helpers/update-firestorm.py: one invocation of the tool, the   *)
(* child invocation it may start inside the virtual environment, and the   *)
(* files both touch (manifest, temp directory, venv directory).            *)
(*                                                                         *)
(* Strings the code computes with (version, URL, checksum) are sequences   *)
(* of one-character strings; the fixed halves of URL_TEMPLATE are single   *)
(* tokens.  A JSON file is its syntax tree: an object is the sequence of   *)
(* its members as they stand in the text (duplicate keys possible).        *)
(***************************************************************************)
EXTENDS Integers, Sequences, FiniteSets, TLC

\* ------------------------------------------------------------------ bounds
MaxVersionLen == 2      \* characters of the version argument
MaxChunks     == 2      \* chunks a response body delivers
ReadSize      == 1      \* bytes per f.read() in the hash loop (8192, scaled)

\* --------------------------------------------------------------- constants
DigestHexLen == 64      \* characters of sha256().hexdigest()

Procs        == {"invoker", "child"}
VersionChars == {"7", "."}
Bytes        == {0, 1}

RECURSIVE SeqsUpTo(_, _)
SeqsUpTo(S, n) ==
  IF n = 0 THEN {<<>>}
  ELSE LET shorter == SeqsUpTo(S, n - 1)
       IN  shorter \cup {Append(s, x) : s \in shorter, x \in S}

Versions == SeqsUpTo(VersionChars, MaxVersionLen) \ {<<>>}
\* what one turn of iter_content yields: a keep-alive chunk or one byte
Chunks   == {<<>>} \cup {<<b>> : b \in Bytes}

\* ------------------------------------------------------------ URL and names
URL_PREFIX  == <<"https://downloads.firestormviewer.org/preview/windows/">>
NAME_PREFIX == <<"Phoenix-Firestorm-Betax64_AVX2-">>
NAME_SUFFIX == <<"_Setup.exe">>

\* URL_TEMPLATE.format(v)
FormatUrl(v) == URL_PREFIX \o NAME_PREFIX \o v \o NAME_SUFFIX

\* Path(url).name: the part of the URL after its last "/"
InstallerName(v) == NAME_PREFIX \o v \o NAME_SUFFIX

\* dotted_version.replace(".", "-")
Hyphenate(dotted) ==
  [i \in DOMAIN dotted |-> IF dotted[i] = "." THEN "-" ELSE dotted[i]]

\* ------------------------------------------------------------------ digest
HexDigits == <<"0", "1", "2", "3", "4", "5", "6", "7", "8", "9",
               "a", "b", "c", "d", "e", "f">>

UpperChar(c) ==
  CASE c = "a" -> "A" [] c = "b" -> "B" [] c = "c" -> "C"
    [] c = "d" -> "D" [] c = "e" -> "E" [] c = "f" -> "F"
    [] OTHER -> c

\* str.upper()
Upper(s) == [i \in DOMAIN s |-> UpperChar(s[i])]

\* hashlib.sha256(): the accumulator starts empty.  The compression function
\* is a stand-in with SHA-256's interface: a state fed byte by byte, injective
\* on the byte strings of the model, rendered as DigestHexLen hex digits.
HashNew == 0

RECURSIVE HashUpdate(_, _)
HashUpdate(h, data) ==
  IF data = <<>> THEN h
  ELSE HashUpdate((h * 3 + Head(data) + 1) % 65536, Tail(data))

Pow16(k) == CASE k = 0 -> 1 [] k = 1 -> 16 [] k = 2 -> 256 [] OTHER -> 4096

HexDigest(h) ==
  [i \in 1..DigestHexLen |->
     HexDigits[((((h \div Pow16(i % 4)) % 16) + i) % 16) + 1]]

\* the reference digest of a byte string, computed in one pass
Sha256Hex(data) == HexDigest(HashUpdate(HashNew, data))

Take(s, n) == SubSeq(s, 1, IF n < Len(s) THEN n ELSE Len(s))
Drop(s, n) == SubSeq(s, (IF n < Len(s) THEN n ELSE Len(s)) + 1, Len(s))

\* the loop  for chunk in iter(lambda: f.read(size), b""): h.update(chunk)
RECURSIVE HashFile(_, _)
HashFile(h, rest) ==
  IF Take(rest, ReadSize) = <<>> THEN h
  ELSE HashFile(HashUpdate(h, Take(rest, ReadSize)), Drop(rest, ReadSize))

calculate_sha256_lower(data) == HexDigest(HashFile(HashNew, data))

calculate_sha256(data) == Upper(HexDigest(HashFile(HashNew, data)))

\* -------------------------------------------------------------------- JSON
Str(x)  == [t |-> "str", s |-> x, m |-> <<>>]
Obj(ms) == [t |-> "obj", s |-> <<>>, m |-> ms]
Arr     == [t |-> "arr", s |-> <<>>, m |-> <<>>]
Mem(k, v) == [k |-> k, v |-> v]

HasKey(d, k) == \E i \in DOMAIN d.m : d.m[i].k = k

\* d[k] for a dict d that has the key (the last member of that name)
GetItem(d, k) ==
  d.m[CHOOSE i \in DOMAIN d.m :
        /\ d.m[i].k = k
        /\ \A j \in DOMAIN d.m : j > i => d.m[j].k # k].v

\* d[k] = v: the value is replaced where the key stands, a new key goes last
SetItem(d, k, v) ==
  IF HasKey(d, k)
  THEN [d EXCEPT !.m = [i \in DOMAIN d.m |->
                          IF d.m[i].k = k THEN Mem(k, v) ELSE d.m[i]]]
  ELSE [d EXCEPT !.m = Append(d.m, Mem(k, v))]

\* json.load of a value: every object becomes a dict, where a repeated key
\* keeps its first place and its last value
RECURSIVE json_load(_)
RECURSIVE LoadMembers(_, _)
LoadMembers(d, ms) ==
  IF ms = <<>> THEN d
  ELSE LoadMembers(SetItem(d, Head(ms).k, json_load(Head(ms).v)), Tail(ms))

json_load(v) == IF v.t = "obj" THEN LoadMembers(Obj(<<>>), v.m) ELSE v

NoFile    == [exists |-> FALSE, wf |-> FALSE, indent |-> 0, doc |-> Str(<<>>)]
Malformed == [exists |-> TRUE,  wf |-> FALSE, indent |-> 0, doc |-> Str(<<>>)]
JsonFile(doc, indent) ==
  [exists |-> TRUE, wf |-> TRUE, indent |-> indent, doc |-> doc]

\* json.dump(d, f, indent=2, ensure_ascii=False): the file holds the dict's
\* items in order, one member each, laid out with the indent of the call
json_dump(d) == JsonFile(d, 2)

Sha256Tag == <<"s", "h", "a", "2", "5", "6", ":">>

Raised(file)  == [raised |-> TRUE,  file |-> file]
Written(file) == [raised |-> FALSE, file |-> file]

\* the manifest has the keys update_manifest indexes, with the types it needs
Indexable(file) ==
  /\ file.exists /\ file.wf
  /\ LET m == json_load(file.doc)
     IN  /\ m.t = "obj"
         /\ HasKey(m, "architecture")
         /\ GetItem(m, "architecture").t = "obj"
         /\ HasKey(GetItem(m, "architecture"), "64bit")
         /\ GetItem(GetItem(m, "architecture"), "64bit").t = "obj"

\* lines 98-102 on a manifest that is Indexable: the dict after the three
\* assignments
UpdatedDoc(file, dotted_version, hyphen_version, checksum) ==
  LET m    == json_load(file.doc)
      m1   == SetItem(m, "version", Str(dotted_version))
      arch == GetItem(m1, "architecture")
      b1   == SetItem(GetItem(arch, "64bit"), "url",
                      Str(FormatUrl(hyphen_version)))
      b2   == SetItem(b1, "hash", Str(Sha256Tag \o checksum))
  IN  SetItem(m1, "architecture", SetItem(arch, "64bit", b2))

update_manifest_clobber(file, dotted_version, hyphen_version, checksum) ==
  IF ~Indexable(file) THEN Raised(file)
  ELSE LET m    == json_load(file.doc)
           m1   == SetItem(m, "version", Str(dotted_version))
           arch == GetItem(m1, "architecture")
           b64  == Obj(<<Mem("url", Str(FormatUrl(hyphen_version))),
                         Mem("hash", Str(Sha256Tag \o checksum))>>)
       IN  Written(json_dump(
             SetItem(m1, "architecture", SetItem(arch, "64bit", b64))))

update_manifest_early_write(file, dotted_version, hyphen_version, checksum) ==
  IF Indexable(file)
  THEN Written(json_dump(
         UpdatedDoc(file, dotted_version, hyphen_version, checksum)))
  ELSE IF file.wf /\ json_load(file.doc).t = "obj"
       THEN Raised(json_dump(
              SetItem(json_load(file.doc), "version", Str(dotted_version))))
       ELSE Raised(file)

\* update_manifest: the file after the call, and whether the call raised.
\* json.load, the three assignments and their JSONDecodeError, KeyError or
\* TypeError all come before the file is reopened for writing.
update_manifest(file, dotted_version, hyphen_version, checksum) ==
  IF Indexable(file)
  THEN Written(json_dump(
         UpdatedDoc(file, dotted_version, hyphen_version, checksum)))
  ELSE Raised(file)

\* ------------------------------------------------------------- manifests
OldBin == Obj(<<Mem("url", Str(<<"old-url">>)),
                Mem("hash", Str(<<"sha256:AAA">>)),
                Mem("bin", Str(<<"Firestorm.exe">>))>>)
DupBin == Obj(<<Mem("bin", Str(<<"a.exe">>)),
                Mem("url", Str(<<"old-url">>)),
                Mem("bin", Str(<<"Firestorm.exe">>))>>)
OldVersion == Str(<<"7", ".", "1">>)

DocFull ==
  Obj(<<Mem("version", OldVersion),
        Mem("description", Str(<<"Firestorm">>)),
        Mem("architecture",
            Obj(<<Mem("64bit", OldBin), Mem("32bit", OldBin)>>)),
        Mem("shortcuts", Arr),
        Mem("other", Str(<<"keep">>))>>)
DocDup ==
  Obj(<<Mem("other", Str(<<"first">>)),
        Mem("version", OldVersion),
        Mem("architecture", Obj(<<Mem("64bit", DupBin)>>)),
        Mem("other", Str(<<"keep">>))>>)
DocMin ==
  Obj(<<Mem("version", OldVersion),
        Mem("architecture", Obj(<<Mem("64bit", Obj(<<>>))>>))>>)
DocNoVersion ==
  Obj(<<Mem("architecture", Obj(<<Mem("64bit", OldBin)>>)),
        Mem("other", Str(<<"keep">>))>>)
DocNoArch ==
  Obj(<<Mem("version", OldVersion), Mem("other", Str(<<"keep">>))>>)
DocNo64 ==
  Obj(<<Mem("version", OldVersion),
        Mem("architecture", Obj(<<Mem("32bit", OldBin)>>))>>)
DocArchStr ==
  Obj(<<Mem("version", OldVersion), Mem("architecture", Str(<<"x">>))>>)
Doc64Str ==
  Obj(<<Mem("version", OldVersion),
        Mem("architecture", Obj(<<Mem("64bit", Str(<<"x">>))>>))>>)

ManifestFiles ==
  {NoFile, Malformed, JsonFile(Arr, 4), JsonFile(DocMin, 2)}
    \cup {JsonFile(d, 4) : d \in {DocFull, DocDup, DocMin, DocNoVersion,
                                  DocNoArch, DocNo64, DocArchStr, Doc64Str}}

\* ------------------------------------------------------------------ state
VARIABLES
  pc,              \* [Procs -> the place each process has reached]
  exitCode,        \* [Procs -> the exit status, -1 while it runs]
  diag,            \* [Procs -> the last diagnostic the process printed]
  log,             \* [Procs -> the steps the process has executed, in order]
  argv,            \* [Procs -> sys.argv[1:] of the process]
  sysRequests,     \* "import requests" works in the invoker's interpreter
  venv,            \* helpers/venv: the directory, Scripts/python.exe, requests
  manifest,        \* bucket/firestorm-beta.json
  temp,            \* helpers/temp: the directory and the files in it
  dotted_version,  \* locals of main
  hyphen_version,
  keep_temp,
  installer_path,
  checksum,
  received,        \* chunks response.iter_content has yielded so far
  pending,         \* exit status the try block leaves to the finally clause
  written,         \* the bytes download_installer has written in this run
  manifest0,       \* the files as they were when the invoker started
  temp0,
  venv0

vars == <<pc, exitCode, diag, log, argv, sysRequests, venv, manifest, temp,
          dotted_version, hyphen_version, keep_temp, installer_path, checksum,
          received, pending, written, manifest0, temp0, venv0>>

locals == <<dotted_version, hyphen_version, keep_temp, installer_path,
            checksum, received, pending, written>>
files0 == <<manifest0, temp0, venv0, sysRequests>>

NoFiles == [n \in {} |-> <<>>]
StaleBytes == <<1, 0, 1>>

NoArgs == [positional |-> <<>>, keep |-> FALSE]
CommandLines ==
  {[positional |-> ps, keep |-> k] :
     ps \in {<<>>} \cup {<<v>> : v \in Versions}, k \in BOOLEAN}

NoVenv == [exists |-> FALSE, python |-> FALSE, requests |-> FALSE]
Venvs  == {NoVenv,
           [exists |-> TRUE, python |-> FALSE, requests |-> FALSE],
           [exists |-> TRUE, python |-> TRUE,  requests |-> FALSE],
           [exists |-> TRUE, python |-> TRUE,  requests |-> TRUE]}

\* the temp directory before the run: missing, empty, or holding a file left
\* under the name this run will download to
TempDirs(cmd) ==
  {[exists |-> FALSE, files |-> NoFiles], [exists |-> TRUE, files |-> NoFiles]}
    \cup {[exists |-> TRUE,
           files  |-> (InstallerName(Hyphenate(cmd.positional[i])) :> StaleBytes)] :
            i \in DOMAIN cmd.positional}

Init ==
  /\ pc = [p \in Procs |-> IF p = "invoker" THEN "import" ELSE "idle"]
  /\ exitCode = [p \in Procs |-> -1]
  /\ diag = [p \in Procs |-> "none"]
  /\ log = [p \in Procs |-> <<>>]
  /\ \E cmd \in CommandLines :
       /\ argv = [p \in Procs |-> IF p = "invoker" THEN cmd ELSE NoArgs]
       /\ temp \in TempDirs(cmd)
  /\ sysRequests \in BOOLEAN
  /\ venv \in IF sysRequests THEN {NoVenv} ELSE Venvs
  /\ manifest \in ManifestFiles
  /\ dotted_version = <<>>
  /\ hyphen_version = <<>>
  /\ keep_temp = FALSE
  /\ installer_path = [set |-> FALSE, name |-> <<>>]
  /\ checksum = <<>>
  /\ received = 0
  /\ pending = 0
  /\ written = <<>>
  /\ manifest0 = manifest
  /\ temp0 = temp
  /\ venv0 = venv

\* --------------------------------------------------------------- helpers
Goto(p, place)  == pc' = [pc EXCEPT ![p] = place]
Logged(p, evs)  == log' = [log EXCEPT ![p] = log[p] \o evs]
Says(p, d)      == diag' = [diag EXCEPT ![p] = d]

\* sys.exit(code), or an exception nothing catches (code 1)
Exit(p, code) ==
  /\ pc' = [pc EXCEPT ![p] = "exited"]
  /\ exitCode' = [exitCode EXCEPT ![p] = code]

\* the interpreter a process runs in can import requests
CanImport(p) == IF p = "invoker" THEN sysRequests ELSE venv.requests

\* line 18
NeedsCreateAlways(v) == TRUE

NeedsCreate(v) == ~v.exists

\* line 46: cmd = [venv_python, __file__] + sys.argv[1:]
ChildArgv(a) == a

\* lines 57-70: what the try block around requests.get does with a response
DownloadOutcomeLenient(resp) ==
  IF resp.neterr THEN [exit |-> TRUE, diag |-> "network_error"]
  ELSE IF resp.status = 404
       THEN [exit |-> FALSE, diag |-> "version_not_found"]
       ELSE IF resp.status >= 400
            THEN [exit |-> TRUE, diag |-> "http_error"]
            ELSE [exit |-> FALSE, diag |-> "downloading"]

DownloadOutcome(resp) ==
  IF resp.neterr THEN [exit |-> TRUE, diag |-> "network_error"]
  ELSE IF resp.status = 404
       THEN [exit |-> TRUE, diag |-> "version_not_found"]
       ELSE IF resp.status >= 400
            THEN [exit |-> TRUE, diag |-> "http_error"]
            ELSE [exit |-> FALSE, diag |-> "downloading"]

Responses == {[neterr |-> TRUE, status |-> 0]}
               \cup {[neterr |-> FALSE, status |-> s] : s \in {200, 404, 500}}

\* line 163
RunsCleanupAlways(keep) == TRUE
RunsCleanupNever(keep) == FALSE

RunsCleanup(keep) == ~keep

\* line 164: [installer_path] if 'installer_path' in locals() else []
TempFilesNone(ip) == <<>>

TempFiles(ip) == IF ip.set THEN <<ip.name>> ELSE <<>>

Range(s) == {s[i] : i \in DOMAIN s}

\* the paths of the list that exist, which cleanup_temp_files unlinks
Removable(dir, paths) == Range(paths) \cap DOMAIN dir

cleanup_temp_files_all(dir, paths) == NoFiles

\* lines 109-115: the directory after every listed path that exists is unlinked
cleanup_temp_files(dir, paths) ==
  [n \in (DOMAIN dir) \ Range(paths) |-> dir[n]]

\* ---------------------------------------------------------------- actions
\* main, lines 120-125: try: import requests
ImportRequests(p) ==
  /\ pc[p] = "import"
  /\ IF CanImport(p)
     THEN /\ Goto(p, "parse")
          /\ UNCHANGED <<diag, log>>
     ELSE /\ Goto(p, "setup_venv")
          /\ Says(p, "requests_not_found")
          /\ Logged(p, <<"no_requests">>)
  /\ UNCHANGED <<exitCode, argv, venv, manifest, temp, locals, files0>>

\* setup_venv, lines 14-37, called from run_with_venv line 42.  The outcomes
\* of the three subprocesses are inputs: python -m venv succeeds or not, the
\* venv it makes has Scripts/python.exe or not, pip install succeeds or not.
SetupVenv(p) ==
  /\ pc[p] = "setup_venv"
  /\ \E createOk \in BOOLEAN, hasScripts \in BOOLEAN, pipOk \in BOOLEAN :
       LET create == NeedsCreate(venv)
           made   == IF create /\ createOk
                     THEN [exists |-> TRUE, python |-> hasScripts,
                           requests |-> FALSE]
                     ELSE venv
           ran    == IF create /\ createOk THEN <<"venv_create">> ELSE <<>>
       IN  IF create /\ ~createOk
           THEN \* CalledProcessError, line 20
                /\ venv' = venv
                /\ Says(p, "traceback")
                /\ Logged(p, <<"venv_create_failed">>)
                /\ Exit(p, 1)
           ELSE IF ~made.python
           THEN \* FileNotFoundError, lines 33-35
                /\ venv' = made
                /\ Says(p, "venv_setup_failed")
                /\ Logged(p, ran)
                /\ Exit(p, 1)
           ELSE IF made.requests
           THEN /\ venv' = made
                /\ Logged(p, ran)
                /\ Goto(p, "reinvoke")
                /\ UNCHANGED <<diag, exitCode>>
           ELSE IF pipOk
           THEN /\ venv' = [made EXCEPT !.requests = TRUE]
                /\ Says(p, "installing_requests")
                /\ Logged(p, ran \o <<"pip_install">>)
                /\ Goto(p, "reinvoke")
                /\ UNCHANGED exitCode
           ELSE \* CalledProcessError, line 32
                /\ venv' = made
                /\ Says(p, "traceback")
                /\ Logged(p, ran \o <<"pip_install_failed">>)
                /\ Exit(p, 1)
  /\ UNCHANGED <<argv, manifest, temp, locals, files0>>

\* run_with_venv, lines 43-47: start the child and wait for it
Reinvoke(p) ==
  /\ pc[p] = "reinvoke"
  /\ pc["child"] = "idle"
  /\ pc' = [pc EXCEPT ![p] = "wait", !["child"] = "import"]
  /\ argv' = [argv EXCEPT !["child"] = ChildArgv(argv[p])]
  /\ Says(p, "rerunning")
  /\ Logged(p, <<"reinvoke">>)
  /\ UNCHANGED <<exitCode, venv, manifest, temp, locals, files0>>

\* run_with_venv, line 48: sys.exit(result.returncode)
ChildReturn(p) ==
  /\ pc[p] = "wait"
  /\ pc["child"] = "exited"
  /\ Exit(p, exitCode["child"])
  /\ UNCHANGED <<diag, log, argv, venv, manifest, temp, locals, files0>>

\* main, lines 127-134: parse_args, then the two version strings
ParseArgs(p) ==
  /\ pc[p] = "parse"
  /\ Logged(p, <<"parse">>)
  /\ IF Len(argv[p].positional) = 1
     THEN /\ dotted_version' = argv[p].positional[1]
          /\ hyphen_version' = Hyphenate(argv[p].positional[1])
          /\ keep_temp' = argv[p].keep
          /\ Goto(p, "mkdir")
          /\ UNCHANGED <<diag, exitCode>>
     ELSE /\ Says(p, "usage")
          /\ Exit(p, 2)
          /\ UNCHANGED <<dotted_version, hyphen_version, keep_temp>>
  /\ UNCHANGED <<argv, venv, manifest, temp, installer_path, checksum,
                 received, pending, written, files0>>

\* main, lines 136-139: temp_dir.mkdir(exist_ok=True)
MakeTempDir(p) ==
  /\ pc[p] = "mkdir"
  /\ temp' = [temp EXCEPT !.exists = TRUE]
  /\ Logged(p, IF temp.exists THEN <<>> ELSE <<"mkdir">>)
  /\ Goto(p, "check")
  /\ UNCHANGED <<exitCode, diag, argv, venv, manifest, locals, files0>>

\* main, lines 141-143: the manifest must exist
CheckManifest(p) ==
  /\ pc[p] = "check"
  /\ IF manifest.exists
     THEN /\ Logged(p, <<"check_ok">>)
          /\ Goto(p, "request")
          /\ UNCHANGED <<diag, exitCode>>
     ELSE /\ Logged(p, <<"manifest_missing">>)
          /\ Says(p, "manifest_not_found")
          /\ Exit(p, 1)
  /\ UNCHANGED <<argv, venv, manifest, temp, locals, files0>>

\* download_installer, lines 53-70: the GET and raise_for_status.  sys.exit
\* inside the try block of main raises SystemExit, which runs the finally
\* clause before the process ends.
DownloadRequest(p) ==
  /\ pc[p] = "request"
  /\ \E resp \in Responses :
       LET o == DownloadOutcome(resp)
       IN  /\ Says(p, o.diag)
           /\ Logged(p, <<"fetch", "request">> \o
                        (IF o.diag = "downloading" THEN <<>>
                         ELSE <<"download_error">>))
           /\ IF o.exit
              THEN /\ pending' = 1
                   /\ Goto(p, "finally")
              ELSE /\ pending' = pending
                   /\ Goto(p, "open")
  /\ UNCHANGED <<exitCode, argv, venv, manifest, temp, dotted_version,
                 hyphen_version, keep_temp, installer_path, checksum,
                 received, written, files0>>

\* download_installer, line 72: open(filename, "wb") creates or truncates
DownloadOpen(p) ==
  /\ pc[p] = "open"
  /\ temp' = [temp EXCEPT !.files =
                (InstallerName(hyphen_version) :> <<>>) @@ temp.files]
  /\ written' = <<>>
  /\ received' = 0
  /\ Logged(p, <<"open">>)
  /\ Goto(p, "write")
  /\ UNCHANGED <<exitCode, diag, argv, venv, manifest, dotted_version,
                 hyphen_version, keep_temp, installer_path, checksum,
                 pending, files0>>

\* download_installer, lines 73-77, and the assignment of line 147: one turn
\* of the loop over response.iter_content, which yields a chunk, ends, or
\* raises when the connection breaks (nothing catches that here)
DownloadChunk(p) ==
  /\ pc[p] = "write"
  /\ \/ /\ received < MaxChunks
        /\ \E chunk \in Chunks :
             LET name == InstallerName(hyphen_version)
             IN  /\ temp' = [temp EXCEPT !.files =
                               IF chunk # <<>>
                               THEN (name :> (temp.files[name] \o chunk))
                                      @@ temp.files
                               ELSE temp.files]
                 /\ written' = IF chunk # <<>> THEN written \o chunk
                               ELSE written
        /\ received' = received + 1
        /\ UNCHANGED <<pc, diag, log, installer_path, pending>>
     \/ /\ installer_path' =
             [set |-> TRUE, name |-> InstallerName(hyphen_version)]
        /\ Logged(p, <<"fetch_return">>)
        /\ Goto(p, "hash")
        /\ UNCHANGED <<diag, temp, written, received, pending>>
     \/ /\ Says(p, "traceback")
        /\ Logged(p, <<"download_broken">>)
        /\ pending' = 1
        /\ Goto(p, "finally")
        /\ UNCHANGED <<temp, written, received, installer_path>>
  /\ UNCHANGED <<exitCode, argv, venv, manifest, dotted_version,
                 hyphen_version, keep_temp, checksum, files0>>

\* main, line 148: checksum = calculate_sha256(installer_path)
CalculateSha256(p) ==
  /\ pc[p] = "hash"
  /\ checksum' = calculate_sha256(temp.files[installer_path.name])
  /\ Says(p, "calculating")
  /\ Logged(p, <<"hash">>)
  /\ Goto(p, "update")
  /\ UNCHANGED <<exitCode, argv, venv, manifest, temp, dotted_version,
                 hyphen_version, keep_temp, installer_path, received,
                 pending, written, files0>>

\* main, lines 151-159: update_manifest, then the closing messages
UpdateManifest(p) ==
  /\ pc[p] = "update"
  /\ LET r == update_manifest(manifest, dotted_version, hyphen_version,
                              checksum)
     IN  /\ manifest' = r.file
         /\ IF r.raised
            THEN /\ Says(p, "traceback")
                 /\ Logged(p, <<"manifest_error">>)
                 /\ pending' = 1
            ELSE /\ Says(p, "done")
                 /\ Logged(p, <<"write">>)
                 /\ pending' = 0
  /\ Goto(p, "finally")
  /\ UNCHANGED <<exitCode, argv, venv, temp, dotted_version, hyphen_version,
                 keep_temp, installer_path, checksum, received, written,
                 files0>>

\* main, lines 161-164, with cleanup_temp_files: the finally clause, then the
\* process ends with the status the try block left.  An unlink the system
\* refuses raises out of the finally clause.
Finally(p) ==
  /\ pc[p] = "finally"
  /\ IF RunsCleanup(keep_temp)
     THEN \E unlinkOk \in BOOLEAN :
            LET paths == TempFiles(installer_path)
            IN  IF Removable(temp.files, paths) # {} /\ ~unlinkOk
                THEN /\ temp' = temp
                     /\ Says(p, "traceback")
                     /\ Logged(p, <<"cleanup">>)
                     /\ Exit(p, 1)
                ELSE /\ temp' = [temp EXCEPT !.files =
                                   cleanup_temp_files(temp.files, paths)]
                     /\ Logged(p, <<"cleanup">> \o
                                  [i \in 1..Cardinality(
                                     DOMAIN temp.files \ DOMAIN
                                       cleanup_temp_files(temp.files, paths))
                                   |-> "removed"])
                     /\ Exit(p, pending)
                     /\ UNCHANGED diag
     ELSE /\ Exit(p, pending)
          /\ UNCHANGED <<temp, diag, log>>
  /\ UNCHANGED <<argv, venv, manifest, locals, files0>>

Next ==
  \E p \in Procs :
    \/ ImportRequests(p)
    \/ SetupVenv(p)
    \/ Reinvoke(p)
    \/ ChildReturn(p)
    \/ ParseArgs(p)
    \/ MakeTempDir(p)
    \/ CheckManifest(p)
    \/ DownloadRequest(p)
    \/ DownloadOpen(p)
    \/ DownloadChunk(p)
    \/ CalculateSha256(p)
    \/ UpdateManifest(p)
    \/ Finally(p)

Spec == Init /\ [][Next]_vars

TypeOK ==
  /\ pc \in [Procs -> {"idle", "import", "setup_venv", "reinvoke", "wait",
                       "parse", "mkdir", "check", "request", "open", "write",
                       "hash", "update", "finally", "exited"}]
  /\ exitCode \in [Procs -> {-1, 0, 1, 2}]
  /\ received \in 0..MaxChunks
  /\ keep_temp \in BOOLEAN

\* ------------------------------------------------------------- properties
Did(p, ev)   == \E i \in DOMAIN log[p] : log[p][i] = ev
Count(p, ev) == Cardinality({i \in DOMAIN log[p] : log[p][i] = ev})
Exited(p)    == pc[p] = "exited"
At(p, ev)    == CHOOSE i \in DOMAIN log[p] : log[p][i] = ev
Keys(d)      == {d.m[i].k : i \in DOMAIN d.m}

\* the command line of p names a version; the strings the run derives from it
HasVersion(p) == Len(argv[p].positional) = 1
VersionOf(p)  == argv[p].positional[1]
HyphenOf(p)   ==
  [i \in 1..Len(VersionOf(p)) |->
     IF VersionOf(p)[i] = "." THEN "-" ELSE VersionOf(p)[i]]
NameOf(p)     == NAME_PREFIX \o HyphenOf(p) \o NAME_SUFFIX

UpperHex == {"0", "1", "2", "3", "4", "5", "6", "7", "8", "9",
             "A", "B", "C", "D", "E", "F"}

C3_NoWriteOnError ==
  /\ manifest # manifest0 => \E p \in Procs : Did(p, "write")
  /\ \A p \in Procs :
       /\ Did(p, "write") =>
            /\ Did(p, "fetch_return") /\ Did(p, "hash")
            /\ Indexable(manifest0)
       /\ (Did(p, "download_error") \/ Did(p, "manifest_error")) =>
            /\ manifest = manifest0
            /\ ~Did(p, "write")
            /\ \A q \in Procs : Exited(q) => exitCode[q] # 0

C3_Witness ==
  \E p \in Procs :
    /\ Exited(p)
    /\ Did(p, "manifest_error")
    /\ manifest0 = JsonFile(DocNo64, 4)
    /\ exitCode[p] = 1

\* C4: when the manifest file does not exist the run prints the
\* missing-manifest diagnostic and exits non-zero before any work: no request
\* is sent, nothing in the temp directory or the manifest path is created,
\* changed or removed (the temp directory itself included), and fetch, hash,
\* manifest write and cleanup never run.
C4_MissingManifestNoWork ==
  \A p \in Procs :
    Did(p, "manifest_missing") =>
      /\ diag[p] = "manifest_not_found"
      /\ Exited(p) /\ exitCode[p] # 0
      /\ temp = temp0
      /\ manifest = manifest0
      /\ \A ev \in {"request", "fetch", "open", "hash", "write", "cleanup"} :
           ~Did(p, ev)

\* C5: a run that passed the manifest-existence check without --keep-temp has
\* run the cleanup step exactly once by the time it exits, whether the steps
\* before succeeded, ended in a download error or raised; a run given
\* --keep-temp never runs it.
C5_CleanupOnceUnlessKept ==
  \A p \in Procs :
    /\ Count(p, "cleanup") <= 1
    /\ argv[p].keep => ~Did(p, "cleanup")
    /\ (Exited(p) /\ Did(p, "check_ok") /\ ~argv[p].keep) =>
         Count(p, "cleanup") = 1

C5_Witness ==
  \E p \in Procs :
    /\ Exited(p)
    /\ ~argv[p].keep
    /\ Did(p, "download_error")
    /\ Count(p, "cleanup") = 1

C7_KeptFileUntouched ==
  \A p \in Procs :
    (argv[p].keep /\ HasVersion(p) /\ Did(p, "open")) =>
      /\ NameOf(p) \in DOMAIN temp.files
      /\ temp.files[NameOf(p)] = written

C7_Witness ==
  \E p \in Procs :
    /\ Exited(p) /\ argv[p].keep
    /\ Did(p, "manifest_error")
    /\ Len(written) = 2
    /\ temp.files[NameOf(p)] = written

\* C8: a process in which requests cannot be imported never parses arguments,
\* fetches, hashes, writes the manifest or cleans up; it creates the venv only
\* when none exists, starts the child with its own arguments and exits with
\* the child's exit code; when the venv cannot be set up it exits non-zero
\* and starts no child.
C8_BootstrapDelegates ==
  \A p \in Procs :
    Did(p, "no_requests") =>
      /\ \A ev \in {"parse", "mkdir", "request", "fetch", "open", "hash",
                    "write", "cleanup"} : ~Did(p, ev)
      /\ Did(p, "venv_create") => ~venv0.exists
      /\ Count(p, "venv_create") <= 1
      /\ Did(p, "reinvoke") =>
           /\ argv["child"] = argv[p]
           /\ venv.exists /\ venv.python /\ venv.requests
      /\ (Exited(p) /\ Did(p, "reinvoke")) =>
           /\ Exited("child")
           /\ exitCode[p] = exitCode["child"]
      /\ (Exited(p) /\ ~Did(p, "reinvoke")) =>
           /\ exitCode[p] # 0
           /\ pc["child"] = "idle"

C8_Witness ==
  /\ Did("invoker", "no_requests")
  /\ venv0.exists /\ ~venv0.requests
  /\ Did("invoker", "pip_install")
  /\ Exited("invoker")
  /\ exitCode["invoker"] = 0
  /\ argv["child"].keep

\* C9: in one process fetch, hash, manifest write and cleanup each run at most
\* once; the hash comes after the fetch has returned, the manifest write
\* after the hash, the cleanup after the manifest write; and after a download
\* error or the missing-manifest exit no fetch, hash or manifest write
\* follows.
C9_LinearSteps ==
  \A p \in Procs :
    /\ \A ev \in {"fetch", "request", "fetch_return", "hash", "write",
                  "cleanup"} : Count(p, ev) <= 1
    /\ Did(p, "hash") =>
         Did(p, "fetch_return") /\ At(p, "fetch_return") < At(p, "hash")
    /\ Did(p, "write") =>
         Did(p, "hash") /\ At(p, "hash") < At(p, "write")
    /\ (Did(p, "cleanup") /\ Did(p, "write")) =>
         At(p, "write") < At(p, "cleanup")
    /\ \A i \in DOMAIN log[p], j \in DOMAIN log[p] :
         (i < j /\ log[p][i] \in {"download_error", "manifest_missing"}) =>
           log[p][j] \notin {"fetch", "request", "open", "fetch_return",
                             "hash", "write"}

C9_Witness ==
  \E p \in Procs :
    /\ Exited(p)
    /\ \A ev \in {"fetch", "fetch_return", "hash", "write", "cleanup"} :
         Count(p, ev) = 1

\* C10: when the download breaks after the destination file was created and
\* before download_installer returns, the partial file is still there when
\* the process exits, also without --keep-temp: installer_path was never
\* assigned, so cleanup gets an empty list and removes nothing.
C10_PartialFileLeft ==
  \A p \in Procs :
    (Exited(p) /\ Did(p, "download_broken")) =>
      /\ ~installer_path.set
      /\ NameOf(p) \in DOMAIN temp.files
      /\ temp.files[NameOf(p)] = written
      /\ ~Did(p, "removed")
      /\ ~argv[p].keep => Count(p, "cleanup") = 1
      /\ exitCode[p] # 0

C10_Witness ==
  \E p \in Procs :
    /\ Exited(p) /\ Did(p, "download_broken")
    /\ ~argv[p].keep
    /\ Did(p, "cleanup")
    /\ Len(written) = 1
====
